---- MODULE Spec2Model ----
(***************************************************************************)
(* A model of cm_sync (src/main.go): the one-directional synchronisation   *)
(* of a source ChartMuseum repository into a destination repository.       *)
(*                                                                         *)
(* The program is sequential.  Its state is the position of main, the      *)
(* locals of syncCharts, and the two servers it talks to.  Every HTTP      *)
(* exchange is an input of the step that issues it: the step draws the     *)
(* response (transport error, status code, body) from a small set.         *)
(***************************************************************************)
EXTENDS Integers, Sequences, FiniteSets, TLC

\* ------------------------------------------------------------------------
\* Bounds of the model
\* ------------------------------------------------------------------------

\* Longest version list of a chart in an index.
MaxLen == 2

\* Number of consecutive invocations of the program that are explored.
MaxRuns == 2

\* Chart names and version strings the indices are built from.  The two
\* version strings differ only by a "v" prefix: they are semantically the
\* same version and different strings.
Charts == {"app", "lib"}

Versions == {"1.0.0", "v1.0.0"}

\* The order in which a server lists the versions of a chart.
VersionOrder == <<"v1.0.0", "1.0.0">>

\* ------------------------------------------------------------------------
\* Data model
\* ------------------------------------------------------------------------

\* type ChartVersion struct { Version string }
ChartVersion(v) == [Version |-> v]

\* Sequences over S of length 0..n.
RECURSIVE SeqsUpTo(_, _)
SeqsUpTo(S, n) ==
    IF n = 0 THEN {<<>>}
    ELSE LET shorter == SeqsUpTo(S, n - 1)
         IN  shorter \cup {Append(s, x) : s \in {t \in shorter : Len(t) = n - 1}, x \in S}

VersionLists == SeqsUpTo({ChartVersion(v) : v \in Versions}, MaxLen)

\* type ChartData map[string][]ChartVersion: every map over a subset of the
\* chart names, empty lists and repeated versions included.
ChartDatas == UNION {[D -> VersionLists] : D \in SUBSET Charts}

\* The map without keys (make(map...), or a nil map: both read the same).
EmptyMap == [c \in {} |-> <<>>]

\* The set of elements of a sequence.
Range(s) == {s[i] : i \in 1..Len(s)}

\* The versions of the set, as records, in the order a server lists them.
Listing(set) ==
    LET keep(v) == v \in set
    IN  [i \in 1..Cardinality(set) |->
            ChartVersion(SelectSeq(VersionOrder, keep)[i])]

\* A repository as a ChartMuseum server holds and lists it: every chart it
\* has comes with at least one version, no version twice, in listing order.
IsRepository(idx) ==
    \A c \in DOMAIN idx :
        /\ Len(idx[c]) > 0
        /\ idx[c] = Listing({idx[c][i].Version : i \in 1..Len(idx[c])})

Repositories == {idx \in ChartDatas : IsRepository(idx)}

\* ------------------------------------------------------------------------
\* compareCharts
\* ------------------------------------------------------------------------

\* The mutant of versionSet2 that forgets the chart: it collects the versions
\* of every chart of data2.
versionSet2_anyChart(data2, chart) ==
    UNION {{data2[c][i].Version : i \in 1..Len(data2[c])} : c \in DOMAIN data2}

\* versionSet2 of compareCharts: the version strings data2 lists for chart,
\* none when data2 has no such chart.
versionSet2(data2, chart) ==
    IF chart \in DOMAIN data2
    THEN {data2[chart][i].Version : i \in 1..Len(data2[chart])}
    ELSE {}

\* The inner loop of compareCharts: the version strings of versions1, in
\* order, that are not in the set.
RECURSIVE missingVersions(_, _)
missingVersions(versions1, set2) ==
    IF versions1 = <<>> THEN <<>>
    ELSE LET rest == missingVersions(Tail(versions1), set2)
             v    == Head(versions1).Version
         IN  IF v \in set2 THEN rest ELSE <<v>> \o rest

\* The mutant of compareCharts that gives every chart of data1 an entry,
\* also when nothing is missing for it.
compareCharts_allKeys(data1, data2) ==
    [chart \in DOMAIN data1 |->
        missingVersions(data1[chart], versionSet2(data2, chart))]

\* The mutant of compareCharts that also reports what data2 has and data1
\* lacks.
compareCharts_bothWays(data1, data2) ==
    LET missing(a, b, chart) == missingVersions(a[chart], versionSet2(b, chart))
        both(chart) ==
            (IF chart \in DOMAIN data1 THEN missing(data1, data2, chart) ELSE <<>>)
            \o (IF chart \in DOMAIN data2 THEN missing(data2, data1, chart) ELSE <<>>)
    IN  [chart \in {c \in DOMAIN data1 \cup DOMAIN data2 : both(c) # <<>>} |-> both(chart)]

\* compareCharts: diff[chart] is created by the first append, so a chart
\* with nothing missing has no key in the result.
compareCharts(data1, data2) ==
    LET missing(chart) == missingVersions(data1[chart], versionSet2(data2, chart))
    IN  [chart \in {c \in DOMAIN data1 : missing(c) # <<>>} |-> missing(chart)]


\* ------------------------------------------------------------------------
\* HTTP exchanges
\* ------------------------------------------------------------------------

\* The default of both flags.
DefaultURL == "http://localhost:8080"

\* A response body as the JSON decoder sees it: not JSON at all, or a JSON
\* object with some keys whose values are strings (keys) and some whose
\* values are arrays of version objects (charts).
Garbage == [json |-> FALSE, keys |-> {}, charts |-> EmptyMap]

JSONObject(keys, charts) == [json |-> TRUE, keys |-> keys, charts |-> charts]

\* What http.Get and client.Do return: no response and an error, or a
\* response with a status code and a body.
NoResponse == [err |-> TRUE, status |-> 0, body |-> Garbage]

Response(status, body) == [err |-> FALSE, status |-> status, body |-> body]

\* What a server may answer on GET /info.
ProbeStatuses == {200, 404}

ProbeBodies ==
    {Garbage, JSONObject({}, EmptyMap), JSONObject({"version"}, EmptyMap),
     JSONObject({"error"}, EmptyMap)}

ProbeResponses ==
    {NoResponse} \cup {Response(s, b) : s \in ProbeStatuses, b \in ProbeBodies}

\* What a server holding the repository index may answer on GET /api/charts:
\* with status 200 its index, with an error status an error page, an error
\* object or an empty object.
ListStatuses == {200, 500}

ListResponses(index) ==
    {NoResponse, Response(200, JSONObject({}, index))}
    \cup {Response(s, b) : s \in ListStatuses \ {200},
                           b \in {Garbage, JSONObject({"error"}, EmptyMap),
                                  JSONObject({}, EmptyMap)}}

\* What the source may answer on GET /charts/<chart>-<version>.tgz, whether
\* reading the body then succeeds, and what the destination may answer on
\* POST /api/charts.
ArchiveResponses == {NoResponse, Response(200, Garbage), Response(404, Garbage)}

UploadResponses ==
    {NoResponse, Response(201, JSONObject({}, EmptyMap)),
     Response(200, JSONObject({}, EmptyMap)),
     Response(409, JSONObject({"error"}, EmptyMap))}

\* A request as the servers see it.
Request(server, method, path, chart, version) ==
    [server |-> server, method |-> method, path |-> path,
     chart |-> chart, version |-> version]

\* ------------------------------------------------------------------------
\* checkInfoEndpoint and fetchCharts
\* ------------------------------------------------------------------------

\* The mutant of checkInfoEndpoint that does not look for the version key.
checkInfoEndpoint_noKeyCheck(resp) ==
    IF resp.err THEN [err |-> "error making request", closes |-> 0]
    ELSE IF resp.status # 200 THEN [err |-> "unexpected status code", closes |-> 1]
    ELSE IF ~resp.body.json THEN [err |-> "error decoding JSON", closes |-> 1]
    ELSE [err |-> "nil", closes |-> 1]

\* checkInfoEndpoint, given the response to its GET: the error it returns
\* ("nil" for none) and the number of Close calls it makes on the body.  The
\* deferred Close is registered once a response is there and runs on every
\* return after that.
checkInfoEndpoint(resp) ==
    IF resp.err THEN [err |-> "error making request", closes |-> 0]
    ELSE IF resp.status # 200 THEN [err |-> "unexpected status code", closes |-> 1]
    ELSE IF ~resp.body.json THEN [err |-> "error decoding JSON", closes |-> 1]
    ELSE IF "version" \notin (resp.body.keys \cup DOMAIN resp.body.charts)
         THEN [err |-> "missing 'version' key in JSON", closes |-> 1]
    ELSE [err |-> "nil", closes |-> 1]

\* fetchCharts, given the response to its GET: the data and the error it
\* returns and the number of Close calls it makes on the body.  The status
\* code is not looked at; decoding into map[string][]ChartVersion fails on a
\* body that is not JSON and on an object with a value that is not an array.
fetchCharts(resp) ==
    IF resp.err THEN [data |-> EmptyMap, err |-> "transport", closes |-> 0]
    ELSE IF ~resp.body.json \/ resp.body.keys # {}
         THEN [data |-> EmptyMap, err |-> "decode", closes |-> 1]
    ELSE [data |-> resp.body.charts, err |-> "nil", closes |-> 1]

\* ------------------------------------------------------------------------
\* State
\* ------------------------------------------------------------------------

VARIABLES
    source,        \* flag -s
    destination,   \* flag -d
    srcIndex,      \* the repository the source server holds
    dstIndex,      \* the repository the destination server holds
    run,           \* how many times the program has been started
    prevAllOk,     \* the previous run listed both servers with status 200
                   \* and transferred every pair of its diff
    dstAtStart,    \* dstIndex when the current run started
    pc,            \* where main is
    exitCode,      \* the exit status of the process, -1 while it runs
    data1,         \* syncCharts: the source listing
    data2,         \* syncCharts: the destination listing
    diff,          \* syncCharts: compareCharts(data1, data2)
    totalCharts,   \* syncCharts: the number of versions in diff
    bar,           \* syncCharts: the progress bar (max, num, description)
    chartsSynced,  \* syncCharts: the count of synced versions
    todo,          \* the charts of diff the outer loop has not reached
    cur,           \* the chart of the outer loop, "" before the first
    pos,           \* how many versions of cur the inner loop has done
    requests,      \* every request issued in this run
    attempts,      \* per item of diff, the archive GETs issued for it
    okItems,       \* the items fetched with 200, read, and uploaded with 201
    openBodies,    \* response bodies received and not closed
    nilClose,      \* Close was called on the body of a nil response
    probed,        \* the responses to the two probes of this run
    listed         \* the responses to the two listings of this run

vars == <<source, destination, srcIndex, dstIndex, run, prevAllOk, dstAtStart,
          pc, exitCode, data1, data2, diff, totalCharts, bar, chartsSynced,
          todo, cur, pos, requests, attempts, okItems, openBodies, nilClose,
          probed, listed>>

flagVars == <<source, destination, run, prevAllOk, dstAtStart>>

serverVars == <<flagVars, srcIndex>>

syncVars == <<data1, data2, diff, totalCharts, bar, chartsSynced, todo, cur,
              pos, attempts, okItems, listed>>

\* The items of a diff: a chart and a position in its list of versions.
ItemsOf(d) == UNION {{<<c, i>> : i \in 1..Len(d[c])} : c \in DOMAIN d}

\* No response yet.
NotAsked == [err |-> FALSE, status |-> -1, body |-> Garbage]

\* No listing yet: the two responses and the two errors of fetchCharts.
NotListed == [src |-> NotAsked, dst |-> NotAsked, err1 |-> "none", err2 |-> "none"]

\* The state of a freshly started process.
Fresh ==
    /\ pc = "main"
    /\ exitCode = -1
    /\ data1 = EmptyMap
    /\ data2 = EmptyMap
    /\ diff = EmptyMap
    /\ totalCharts = 0
    /\ bar = [max |-> 0, num |-> 0, description |-> <<>>]
    /\ chartsSynced = 0
    /\ todo = {}
    /\ cur = ""
    /\ pos = 0
    /\ requests = {}
    /\ attempts = EmptyMap
    /\ okItems = {}
    /\ openBodies = 0
    /\ nilClose = FALSE
    /\ probed = [src |-> NotAsked, dst |-> NotAsked]
    /\ listed = NotListed

\* The same, as the next state of a step.
Restart ==
    /\ pc' = "main"
    /\ exitCode' = -1
    /\ data1' = EmptyMap
    /\ data2' = EmptyMap
    /\ diff' = EmptyMap
    /\ totalCharts' = 0
    /\ bar' = [max |-> 0, num |-> 0, description |-> <<>>]
    /\ chartsSynced' = 0
    /\ todo' = {}
    /\ cur' = ""
    /\ pos' = 0
    /\ requests' = {}
    /\ attempts' = EmptyMap
    /\ okItems' = {}
    /\ openBodies' = 0
    /\ nilClose' = FALSE
    /\ probed' = [src |-> NotAsked, dst |-> NotAsked]
    /\ listed' = NotListed

\* The flags are any of: left at the default, a URL of their own, or (for
\* -d) the very URL given to -s.  Two flags with the same URL name one
\* server, which then holds one repository.
Init ==
    /\ source \in {DefaultURL, "http://source"}
    /\ destination \in {DefaultURL, "http://destination", source}
    /\ srcIndex \in Repositories
    /\ dstIndex \in (IF source = destination THEN {srcIndex} ELSE Repositories)
    /\ run = 1
    /\ prevAllOk = FALSE
    /\ dstAtStart = dstIndex
    /\ Fresh


\* ------------------------------------------------------------------------
\* main
\* ------------------------------------------------------------------------

\* os.Exit(code), or the return of main (code 0), or a panic (code 2).
Exit(code) ==
    /\ pc' = "exit"
    /\ exitCode' = code

\* main up to the first probe: with both flags at their default it prints
\* the usage and exits with 1 before any request.
main_flags ==
    /\ pc = "main"
    /\ IF source = DefaultURL /\ destination = DefaultURL
       THEN Exit(1)
       ELSE pc' = "probeSource" /\ exitCode' = exitCode
    /\ UNCHANGED <<serverVars, dstIndex, syncVars, requests, openBodies,
                   nilClose, probed>>

\* main: checkInfoEndpoint(*source + "/info"), exit 1 on an error.
main_probeSource ==
    /\ pc = "probeSource"
    /\ \E resp \in ProbeResponses :
        LET r == checkInfoEndpoint(resp)
        IN  /\ requests' = requests \cup {Request(source, "GET", "/info", "", "")}
            /\ openBodies' = openBodies + (IF resp.err THEN 0 ELSE 1) - r.closes
            /\ probed' = [probed EXCEPT !.src = resp]
            /\ IF r.err # "nil"
               THEN Exit(1)
               ELSE pc' = "probeDestination" /\ exitCode' = exitCode
    /\ UNCHANGED <<serverVars, dstIndex, syncVars, nilClose>>

\* main: checkInfoEndpoint(*destination + "/info"), exit 1 on an error.
main_probeDestination ==
    /\ pc = "probeDestination"
    /\ \E resp \in ProbeResponses :
        LET r == checkInfoEndpoint(resp)
        IN  /\ requests' = requests \cup {Request(destination, "GET", "/info", "", "")}
            /\ openBodies' = openBodies + (IF resp.err THEN 0 ELSE 1) - r.closes
            /\ probed' = [probed EXCEPT !.dst = resp]
            /\ IF r.err # "nil"
               THEN Exit(1)
               ELSE pc' = "syncCharts" /\ exitCode' = exitCode
    /\ UNCHANGED <<serverVars, dstIndex, syncVars, nilClose>>

\* ------------------------------------------------------------------------
\* syncCharts
\* ------------------------------------------------------------------------

\* The sum of the lengths of the version lists of a diff.
RECURSIVE SumLen(_, _)
SumLen(d, cs) ==
    IF cs = {} THEN 0
    ELSE LET c == CHOOSE x \in cs : TRUE
         IN  Len(d[c]) + SumLen(d, cs \ {c})

\* The test of syncCharts on the errors of the two listings.
listingFailed_first(err1, err2) == err1 # "nil"

listingFailed(err1, err2) == err1 # "nil" \/ err2 # "nil"

\* The test of syncCharts on the answer to the archive GET.
fetchFailed(resp) == resp.err \/ resp.status # 200

\* The test of syncCharts on the answer to the upload POST; the mutant takes
\* any status up to 201 for a success.
syncFailed_upTo201(resp) == resp.err \/ resp.status > 201

syncFailed(resp) == resp.err \/ resp.status # 201

\* syncCharts up to its loop: both listings are fetched, an error of either
\* ends syncCharts (and main, with status 0); otherwise the diff, its total
\* and a progress bar of that total.
syncCharts_list ==
    /\ pc = "syncCharts"
    /\ \E resp1 \in ListResponses(srcIndex), resp2 \in ListResponses(dstIndex) :
        LET f1 == fetchCharts(resp1)
            f2 == fetchCharts(resp2)
            d  == compareCharts(f1.data, f2.data)
        IN  /\ requests' = requests \cup
                   {Request(source, "GET", "/api/charts", "", ""),
                    Request(destination, "GET", "/api/charts", "", "")}
            /\ openBodies' = openBodies
                   + (IF resp1.err THEN 0 ELSE 1) - f1.closes
                   + (IF resp2.err THEN 0 ELSE 1) - f2.closes
            /\ listed' = [src |-> resp1, dst |-> resp2,
                           err1 |-> f1.err, err2 |-> f2.err]
            /\ data1' = f1.data
            /\ data2' = f2.data
            /\ IF listingFailed(f1.err, f2.err)
               THEN /\ Exit(0)
                    /\ UNCHANGED <<diff, totalCharts, bar, todo, attempts>>
               ELSE /\ pc' = "transfer"
                    /\ exitCode' = exitCode
                    /\ diff' = d
                    /\ totalCharts' = SumLen(d, DOMAIN d)
                    /\ bar' = [max |-> SumLen(d, DOMAIN d), num |-> 0,
                               description |-> <<"Syncing Charts">>]
                    /\ todo' = DOMAIN d
                    /\ attempts' = [x \in ItemsOf(d) |-> 0]
    /\ UNCHANGED <<serverVars, dstIndex, chartsSynced, cur, pos, okItems, nilClose,
                   probed>>

\* The destination server storing an uploaded chart version.
StoreVersion(index, chart, version) ==
    [c \in DOMAIN index \cup {chart} |->
        IF c = chart
        THEN Listing(versionSet2(index, chart) \cup {version})
        ELSE index[c]]

\* The charts the loops of syncCharts may take the next version from: the
\* current chart while it has versions left, then any chart not reached yet
\* (the order of a map range is not fixed).
NextCharts ==
    IF cur # "" /\ pos < Len(diff[cur]) THEN {cur} ELSE todo

\* One iteration of the inner loop of syncCharts: the archive is fetched
\* from the source, read, and posted to the destination.
syncCharts_item ==
    /\ pc = "transfer"
    /\ \E chart \in NextCharts :
       \E getResp \in ArchiveResponses, readOk \in BOOLEAN, postResp \in UploadResponses :
        LET i       == IF chart = cur THEN pos + 1 ELSE 1
            version == diff[chart][i]
            fetched == ~fetchFailed(getResp)
            posted  == fetched /\ readOk
            created == posted /\ ~syncFailed(postResp)
            crashed == posted /\ postResp.err
            allOk   == /\ ~getResp.err /\ getResp.status = 200 /\ readOk
                       /\ ~postResp.err /\ postResp.status = 201
        IN  /\ cur' = chart
            /\ pos' = i
            /\ todo' = todo \ {chart}
            /\ attempts' = [attempts EXCEPT ![<<chart, i>>] = @ + 1]
            /\ requests' = requests
                   \cup {Request(source, "GET", "/charts/", chart, version)}
                   \cup (IF posted
                         THEN {Request(destination, "POST", "/api/charts", chart, version)}
                         ELSE {})
            /\ openBodies' = openBodies
                   + (IF getResp.err THEN 0 ELSE 1) - (IF fetched THEN 1 ELSE 0)
                   + (IF posted /\ ~postResp.err THEN 1 ELSE 0)
                   - (IF posted /\ ~postResp.err THEN 1 ELSE 0)
            /\ nilClose' = (nilClose \/ crashed)
            /\ chartsSynced' = IF created THEN chartsSynced + 1 ELSE chartsSynced
            /\ bar' = IF created
                      THEN [bar EXCEPT !.num = @ + 1, !.description = <<chart, "-", version>>]
                      ELSE bar
            /\ okItems' = IF allOk THEN okItems \cup {<<chart, i>>} ELSE okItems
            /\ dstIndex' = IF posted /\ ~postResp.err /\ postResp.status = 201
                           THEN StoreVersion(dstIndex, chart, version)
                           ELSE dstIndex
            /\ srcIndex' = IF source = destination THEN dstIndex' ELSE srcIndex
            /\ IF crashed THEN Exit(2) ELSE UNCHANGED <<pc, exitCode>>
    /\ UNCHANGED <<flagVars, data1, data2, diff, totalCharts, probed, listed>>

\* The loops of syncCharts are over: syncCharts and main return.
syncCharts_return ==
    /\ pc = "transfer"
    /\ NextCharts = {}
    /\ Exit(0)
    /\ UNCHANGED <<serverVars, dstIndex, syncVars, requests, openBodies,
                   nilClose, probed>>

\* The program is started again with the same flags against the same servers.
main_again ==
    /\ pc = "exit"
    /\ run < MaxRuns
    /\ run' = run + 1
    /\ prevAllOk' = (/\ exitCode = 0
                     /\ listed.src.status = 200 /\ listed.err1 = "nil"
                     /\ listed.dst.status = 200 /\ listed.err2 = "nil"
                     /\ okItems = ItemsOf(diff))
    /\ dstAtStart' = dstIndex
    /\ Restart
    /\ UNCHANGED <<source, destination, srcIndex, dstIndex>>

Next ==
    \/ main_flags
    \/ main_probeSource
    \/ main_probeDestination
    \/ syncCharts_list
    \/ syncCharts_item
    \/ syncCharts_return
    \/ main_again

Spec == Init /\ [][Next]_vars

\* ------------------------------------------------------------------------
\* compareCharts on its own: any two maps, one call
\* ------------------------------------------------------------------------

InitDiff ==
    /\ source = "http://source"
    /\ destination = "http://destination"
    /\ srcIndex = EmptyMap
    /\ dstIndex = EmptyMap
    /\ run = 1
    /\ prevAllOk = FALSE
    /\ dstAtStart = EmptyMap
    /\ pc = "compare"
    /\ exitCode = -1
    /\ data1 \in ChartDatas
    /\ data2 \in ChartDatas
    /\ diff = EmptyMap
    /\ totalCharts = 0
    /\ bar = [max |-> 0, num |-> 0, description |-> <<>>]
    /\ chartsSynced = 0
    /\ todo = {}
    /\ cur = ""
    /\ pos = 0
    /\ requests = {}
    /\ attempts = EmptyMap
    /\ okItems = {}
    /\ openBodies = 0
    /\ nilClose = FALSE
    /\ probed = [src |-> NotAsked, dst |-> NotAsked]
    /\ listed = NotListed

\* diff := compareCharts(data1, data2)
compareCharts_call ==
    /\ pc = "compare"
    /\ diff' = compareCharts(data1, data2)
    /\ pc' = "compared"
    /\ UNCHANGED <<serverVars, dstIndex, exitCode, data1, data2, totalCharts,
                   bar, chartsSynced, todo, cur, pos, requests, attempts,
                   okItems, openBodies, nilClose, probed, listed>>

NextDiff == compareCharts_call

SpecDiff == InitDiff /\ [][NextDiff]_vars

\* ------------------------------------------------------------------------
\* Properties of compareCharts (checked under SpecDiff)
\* ------------------------------------------------------------------------

\* The version strings a map lists for a chart, none for a chart it lacks.
VersionsIn(data, chart) ==
    IF chart \in DOMAIN data THEN {r.Version : r \in Range(data[chart])} ELSE {}

\* The version strings a diff reports for a chart.
Reported(d, chart) ==
    IF chart \in DOMAIN d THEN Range(d[chart]) ELSE {}

\* C1: compareCharts(A, B) contains chart C with version V if and only if V
\* is in A's list for C and, by equality of strings, not in B's list for C;
\* a chart that B lacks has no versions in B.
C1_DiffIsSetDifference ==
    pc = "compared" =>
        \A C \in Charts, V \in Versions :
            V \in Reported(diff, C)
                <=> (V \in VersionsIn(data1, C) /\ V \notin VersionsIn(data2, C))

\* A case of C1: the destination has the chart, with the "v" spelling of a
\* version the source has without it, and has the other chart with exactly
\* the version the source chart has; the version is reported all the same.
C1_Witness ==
    /\ pc = "compared"
    /\ DOMAIN data1 = {"app"}
    /\ DOMAIN data2 = {"app", "lib"}
    /\ VersionsIn(data1, "app") = {"1.0.0"}
    /\ VersionsIn(data2, "app") = {"v1.0.0"}
    /\ VersionsIn(data2, "lib") = {"1.0.0"}
    /\ diff = [c \in {"app"} |-> <<"1.0.0">>]

\* The version strings of a list of version records, in order.
Strings(versions) == [i \in 1..Len(versions) |-> versions[i].Version]

\* C9 as stated: compareCharts(A, {}) has the chart names of A and for each
\* the sequence of version strings of A, also for a chart of A without
\* versions.
C9_Original ==
    (pc = "compared" /\ data2 = EmptyMap) =>
        /\ DOMAIN diff = DOMAIN data1
        /\ \A c \in DOMAIN data1 : diff[c] = Strings(data1[c])

\* C9 amended: compareCharts(A, {}) has exactly the charts of A that have at
\* least one version, each with the sequence of version strings of A,
\* repetitions included; a chart of A without versions is not in the result.
C9_DiffAgainstEmpty ==
    (pc = "compared" /\ data2 = EmptyMap) =>
        /\ DOMAIN diff = {c \in DOMAIN data1 : data1[c] # <<>>}
        /\ \A c \in DOMAIN diff : diff[c] = Strings(data1[c])

\* A case of C9: against the empty map, a chart with a version listed twice
\* and a chart without versions.
C9_Witness ==
    /\ pc = "compared"
    /\ data2 = EmptyMap
    /\ DOMAIN data1 = {"app", "lib"}
    /\ data1["app"] = <<ChartVersion("1.0.0"), ChartVersion("1.0.0")>>
    /\ data1["lib"] = <<>>
    /\ diff = [c \in {"app"} |-> <<"1.0.0", "1.0.0">>]

\* ------------------------------------------------------------------------
\* Properties of a run (checked under Spec)
\* ------------------------------------------------------------------------

\* The archive GETs and the upload POSTs among the requests of this run.
ArchiveGets == {r \in requests : r.method = "GET" /\ r.path = "/charts/"}

Uploads == {r \in requests : r.method = "POST"}

\* The listings among the requests of this run.
ListingGets == {r \in requests : r.method = "GET" /\ r.path = "/api/charts"}

\* syncCharts got past its listings into the transfer loop.
Transferring == listed.err1 = "nil" /\ listed.err2 = "nil"

\* C2 as stated: whatever the outcomes of the items, once the run has ended
\* every item of the diff has had its archive GET issued exactly once.
C2_EveryItemAttemptedOnce ==
    (pc = "exit" /\ Transferring) =>
        \A x \in ItemsOf(diff) : attempts[x] = 1

\* C3: when fetchCharts returns an error for the source or the destination,
\* syncCharts ends there, and no archive GET and no upload POST is issued.
C3_ListingFailureAborts ==
    (listed.err1 \notin {"none", "nil"} \/ listed.err2 \notin {"none", "nil"}) =>
        /\ pc = "exit"
        /\ ArchiveGets = {}
        /\ Uploads = {}
        /\ diff = EmptyMap

\* A case of C3: the source listing is fine and has charts the destination
\* lacks, the destination listing is an error page; the run is over.
C3_Witness ==
    /\ pc = "exit"
    /\ listed.err1 = "nil"
    /\ listed.err2 = "decode"
    /\ data1 # EmptyMap
    /\ dstIndex = EmptyMap

\* C4 as stated: when the destination answers the listing with status 500,
\* whatever the body, the listing fails and nothing is fetched or uploaded.
C4_Status500FailsListing ==
    (~listed.dst.err /\ listed.dst.status = 500) =>
        /\ listed.err2 \notin {"none", "nil"}
        /\ pc = "exit"
        /\ ArchiveGets = {}
        /\ Uploads = {}

\* A probe response that passes: status 200, JSON, with a version key.
ProbePasses(resp) ==
    /\ ~resp.err
    /\ resp.status = 200
    /\ resp.body.json
    /\ "version" \in resp.body.keys

\* C5: a request to /api/charts or /charts/ is only issued after the probe
\* of the source and then the probe of the destination have passed; when a
\* probe fails the process exits with 1 and no such request is ever issued.
C5_ProbesGateEverything ==
    /\ (ListingGets \cup ArchiveGets \cup Uploads # {}) =>
           (ProbePasses(probed.src) /\ ProbePasses(probed.dst))
    /\ (probed.dst # NotAsked) => ProbePasses(probed.src)
    /\ \A side \in {"src", "dst"} :
           (probed[side] # NotAsked /\ ~ProbePasses(probed[side])) =>
               /\ pc = "exit"
               /\ exitCode = 1
               /\ ListingGets \cup ArchiveGets \cup Uploads = {}

\* A case of C5: the source passed, the destination answered 200 with a
\* JSON object that has no version key, and the process has exited.
C5_Witness ==
    /\ pc = "exit"
    /\ ProbePasses(probed.src)
    /\ ~probed.dst.err
    /\ probed.dst.status = 200
    /\ probed.dst.body.json
    /\ "version" \notin probed.dst.body.keys
    /\ srcIndex # EmptyMap

\* C6: the total of the progress bar is the number of versions in the diff;
\* its position is at every moment the number of items fetched with 200,
\* read and uploaded with 201, and so never above the total.
C6_ProgressCountsSuccesses ==
    Transferring =>
        /\ totalCharts = Cardinality(ItemsOf(diff))
        /\ bar.max = Cardinality(ItemsOf(diff))
        /\ bar.num = Cardinality(okItems)
        /\ chartsSynced = Cardinality(okItems)
        /\ bar.num <= bar.max

\* A case of C6: the run is over, three items were in the diff, one was
\* uploaded with 201 and one was answered with another status.
C6_Witness ==
    /\ pc = "exit"
    /\ exitCode = 0
    /\ bar.max = 3
    /\ bar.num = 1
    /\ Cardinality(Uploads) >= 2

\* C7 as stated: after a run that transferred every pair of its diff, the
\* next run issues no archive GET and no upload; in any later run, an
\* archive GET is only issued for a pair the destination does not hold.
C7_RerunTransfersNothingNew ==
    /\ (run > 1 /\ prevAllOk) => (ArchiveGets = {} /\ Uploads = {} /\ diff = EmptyMap)
    /\ run > 1 =>
           \A r \in ArchiveGets \cup Uploads :
               r.version \notin VersionsIn(dstAtStart, r.chart)

\* What C8 says of the pairs that are transferred: every upload goes to the
\* URL of the destination and is for a version the source listed and the
\* destination did not list for that chart; a chart that only the
\* destination has is neither fetched nor uploaded, and the destination
\* keeps it as it was.
UploadsAreOfTheDiff ==
    /\ \A r \in Uploads :
           /\ r.server = destination
           /\ r.path = "/api/charts"
           /\ r.version \in VersionsIn(data1, r.chart)
           /\ r.version \in VersionsIn(srcIndex, r.chart)
           /\ r.version \notin VersionsIn(data2, r.chart)
    /\ \A r \in ArchiveGets :
           /\ r.server = source
           /\ r.version \in VersionsIn(data1, r.chart)
           /\ r.version \notin VersionsIn(data2, r.chart)
    /\ \A c \in DOMAIN dstAtStart \ DOMAIN srcIndex :
           /\ c \in DOMAIN dstIndex
           /\ dstIndex[c] = dstAtStart[c]
           /\ \A r \in ArchiveGets \cup Uploads : r.chart # c

C10_BodiesClosed ==
    /\ pc = "exit" => openBodies = 0
    /\ ~nilClose

====
